---- MODULE Spec2Model ----
(***************************************************************************)
(* ExternalSharedMemoryManager and SimpleContext::ExecuteRPC of            *)
(* examples/nvRPC/SharedMemoryService/server.cc.                           *)
(*                                                                         *)
(* Worker threads run ExecuteRPC (Acquire a view on a System V segment,    *)
(* validate two control words, overwrite the second) and Release(shm_id).  *)
(* Offsets and sizes are bytes; memory is read and written in size_t       *)
(* words.  size_t arithmetic is modular (SizeTMod).  A failed glog CHECK   *)
(* aborts the process: crashed names the thread and nothing runs after.    *)
(***************************************************************************)
EXTENDS Integers, Sequences, FiniteSets, TLC

\* ---------------------------------------------------------------- bounds
\* Number of SystemV objects (successful attaches) one run may create.
MaxHandles == 3
\* Width of size_t in the model; offset + size is computed modulo 2^SizeTBits.
SizeTBits == 6

\* ------------------------------------------------------- program constants
\* sizeof(size_t): the element type of CastToArray<size_t>().
WordSize == 8
\* 0xDEADBEEF, truncated to the model's word width.
DEADBEEF == 47

SizeTMod == 2 ^ SizeTBits

Threads == {"w1", "w2"}
NoThread == "none"

\* Segment ids requests and Release name.  ExistingIds were created by the
\* external allocator; the third id names no segment.
ShmIds == {1, 2, 3}
ExistingIds == {1, 2}

BatchIds == {42, DEADBEEF}
Offsets == {0, 2 * WordSize}
Sizes == {0, 2 * WordSize, SizeTMod - 2 * WordSize}

\* Bytes of the segment the external allocator created under id.
SegmentSize(id) == IF id = 1 THEN 4 * WordSize ELSE 2 * WordSize

NoHandle == 0
NoView == [seg |-> NoHandle, offset |-> 0, size |-> 0]
NoInput == [has_sysv |-> FALSE, shm_id |-> 0, offset |-> 0, size |-> 0, batch_id |-> 0]
NoOutput == 0
\* The response of a request whose attach failed.
AttachError == 0 - 1

VARIABLES
    m_AttachedSegments, \* shm_id -> handle of the cached SystemV (NoHandle: no entry)
    m_Mutex,            \* the thread holding m_Mutex, or NoThread
    systemv,            \* every SystemV object created so far, by handle
    shmem,              \* the words of each existing segment
    pc,                 \* each thread's position
    input,              \* each thread's request (ExecuteRPC) or shm_id (Release)
    segment,            \* each thread's local shared_ptr `segment`
    mdesc,              \* each thread's view (unique_ptr<PartialSegmentDescriptor>)
    count,              \* each thread's local `count` in Release
    output,             \* each thread's response
    crashed,            \* the thread whose failed CHECK (or faulting access)
                        \* aborted the process, or NoThread
    consumed,           \* history: the ranges <<shm_id, offset>> on which a
                        \* request with batch_id # 0xDEADBEEF has succeeded
    restored,           \* history: the ranges whose marker, overwritten by a
                        \* request, was last set back to 0xDEADBEEF by one
    began               \* history: per thread, consumed as it was when the
                        \* thread's current request started

\* The history variables: written by the steps below, read by none.
history == <<consumed, restored, began>>

vars == <<m_AttachedSegments, m_Mutex, systemv, shmem, pc, input, segment, mdesc,
          count, output, crashed, history>>

Handles == 1 .. Len(systemv)

\* ------------------------------------------------ std::shared_ptr<SystemV>
\* SystemV::Attach(shm_id) succeeded: a new SystemV object, owned by one
\* shared_ptr.  detaches counts the runs of its destructor (the detach);
\* released records that Release erased its cache entry.
NewSystemV(id) ==
    [shm_id |-> id, size |-> SegmentSize(id), attached |-> TRUE, use_count |-> 1,
     detaches |-> 0, released |-> FALSE]

\* Copying a shared_ptr that owns h.
AddRef(S, h) == [S EXCEPT ![h].use_count = @ + 1]

\* Destroying a shared_ptr that owns h: the last owner runs ~SystemV, which
\* detaches the segment.
DropRef(S, h) ==
    IF S[h].use_count <= 1
        THEN [S EXCEPT ![h].use_count = 0, ![h].attached = FALSE,
                       ![h].detaches = @ + 1]
        ELSE [S EXCEPT ![h].use_count = @ - 1]

\* ------------------------------------------------------------- m_Mutex
\* Mutant: the lock is never taken into account (a missing lock_guard).
MutexNeverHeld == TRUE

\* std::lock_guard<std::mutex> l(m_Mutex) can be constructed.
MutexAvailable == m_Mutex = NoThread

\* Mutant: leaving the scope does not unlock (lock() without a guard).
UnlockSkipped(t) == t

\* Line 108 / 117: the lock_guard's destructor, run when t leaves the scope by
\* return or by an error passing through: m_Mutex is free again.
Unlock(t) == NoThread

\* ------------------------------------------------- m_AttachedSegments
\* Mutant: the lookup never finds an entry.
FindMiss(id) == NoHandle

\* m_AttachedSegments.find(shm_id): the cached handle, NoHandle for end().
Find(id) == m_AttachedSegments[id]

\* Mutant: erase leaves the entry in the map.
EraseNothing(M, id) == M

\* Mutant: erase empties the map (clear() for erase()).
EraseAll(M, id) == [j \in ShmIds |-> NoHandle]

\* m_AttachedSegments.erase(shm_id): the map without the entry.
Erase(M, id) == [M EXCEPT ![id] = NoHandle]

\* Mutant: Release detaches the segment itself, whoever else owns it.
ReleaseEntryForced(S, h) ==
    [S EXCEPT ![h].released = TRUE, ![h].attached = FALSE, ![h].detaches = @ + 1,
              ![h].use_count = @ - 1]

\* m_AttachedSegments.erase(shm_id): the erased entry's shared_ptr is
\* destroyed.
ReleaseEntry(S, h) == DropRef([S EXCEPT ![h].released = TRUE], h)

\* Mutant: the insert drops every other entry (assigning a fresh map).
InsertEvicting(M, id, h) == [j \in ShmIds |-> IF j = id THEN h ELSE NoHandle]

\* Mutant: the insert files the handle under another id.
InsertWrongKey(M, id, h) == [M EXCEPT ![IF id = 1 THEN 2 ELSE 1] = h]

\* Mutant: the handle is returned without being cached.
InsertNothing(M, id, h) == M

\* m_AttachedSegments[shm_id] = segment.
Insert(M, id, h) == [M EXCEPT ![id] = h]

\* --------------------------------------------- PartialSegmentDescriptor
\* Mutant: the view keeps a plain pointer and takes no share of h.
ViewCtorRaw(S, h) == S

\* The constructor's m_Segment(segment): the view takes its own share of h.
ViewCtor(S, h) == AddRef(S, h)

\* CHECK_LE(offset + size, segment->Size()), in size_t arithmetic.
CheckLE(offset, size, segsize) == (offset + size) % SizeTMod <= segsize

\* CastToArray<size_t>(): a plain pointer to the view's first byte; array[k]
\* is the word at byte k * WordSize from it, with no look at the view's size.
\* The result is the byte offset of array[k] in the segment.
CastToArray(v, k) == v.offset + k * WordSize

\* array[k] lies inside the mapped segment.
Mapped(v, k) == CastToArray(v, k) + WordSize <= systemv[v.seg].size

\* Mutant: array indexes from the segment's base, not from the view's offset.
WordIndexBase(v, k) == k + 1

\* Index into shmem[id] of array[k].
WordIndex(v, k) == (CastToArray(v, k) \div WordSize) + 1

\* The range a view stands for in the history: its segment id and offset.
RangeOf(v) == <<systemv[v.seg].shm_id, v.offset>>

Values == BatchIds \cup {DEADBEEF}

\* What reading array[k] can yield: the word in the segment or, past the end
\* of the mapping (undefined behaviour), any value, unless the load faults.
ReadOutcomes(v, k) ==
    IF Mapped(v, k)
        THEN {shmem[systemv[v.seg].shm_id][WordIndex(v, k)]}
        ELSE Values

TypeOK ==
    /\ m_AttachedSegments \in [ShmIds -> {NoHandle} \cup Handles]
    /\ m_Mutex \in Threads \cup {NoThread}
    /\ Len(systemv) <= MaxHandles
    /\ crashed \in Threads \cup {NoThread}
    /\ \A t \in Threads : segment[t] \in {NoHandle} \cup Handles
    /\ \A t \in Threads : mdesc[t].seg \in {NoHandle} \cup Handles
    /\ \A t \in Threads : count[t] \in {0, 1}

Init ==
    /\ m_AttachedSegments = [id \in ShmIds |-> NoHandle]
    /\ m_Mutex = NoThread
    /\ systemv = << >>
    /\ shmem = [id \in ExistingIds |->
                  IF id = 1 THEN <<42, DEADBEEF, DEADBEEF, DEADBEEF>>
                            ELSE <<42, 42>>]
    /\ pc = [t \in Threads |-> "idle"]
    /\ input = [t \in Threads |-> NoInput]
    /\ segment = [t \in Threads |-> NoHandle]
    /\ mdesc = [t \in Threads |-> NoView]
    /\ count = [t \in Threads |-> 0]
    /\ output = [t \in Threads |-> NoOutput]
    /\ crashed = NoThread
    /\ consumed = {}
    /\ restored = {}
    /\ began = [t \in Threads |-> {}]

\* Mutant: the CHECK is compiled out; the handler carries on to its response.
AbortSkipped(t, r) ==
    /\ input' = [input EXCEPT ![t] = r]
    /\ pc' = [pc EXCEPT ![t] = "finish"]
    /\ UNCHANGED <<m_AttachedSegments, m_Mutex, systemv, shmem, segment, mdesc,
                   count, output, crashed>>

\* Thread t aborts the process (a glog CHECK fails, or an access faults)
\* while handling request r.
Abort(t, r) ==
    /\ crashed' = t
    /\ input' = [input EXCEPT ![t] = r]
    /\ UNCHANGED <<m_AttachedSegments, m_Mutex, systemv, shmem, pc, segment, mdesc,
                   count, output>>

\* A request as the framework hands it over: with a locator naming shm_id, or
\* without one.  offset and size are passed by value to Acquire and first
\* used at line 102, batch_id is first read at line 162; the model draws each
\* at the step that first uses it (until then the field is 0).
Requests ==
    [has_sysv : {TRUE}, shm_id : ShmIds, offset : {0}, size : {0}, batch_id : {0}]
    \cup {NoInput}

\* Threads that may still call SystemV::Attach in their current request.
MayAttach == {t \in Threads : pc[t] \in {"goa", "attach"}}

\* ------------------------------------------------------- ExecuteRPC
\* The framework hands a request to a worker; lines 154-159: Acquire is
\* called only when the request carries a locator.
ExecuteRPC_Begin(t) ==
    /\ crashed = NoThread
    /\ pc[t] = "idle"
    /\ Len(systemv) + Cardinality(MayAttach) < MaxHandles
    /\ \E r \in Requests :
         /\ input' = [input EXCEPT ![t] = r]
         /\ pc' = [pc EXCEPT ![t] = IF r.has_sysv THEN "goa" ELSE "validate0"]
    /\ began' = [began EXCEPT ![t] = consumed]
    /\ UNCHANGED <<m_AttachedSegments, m_Mutex, systemv, shmem, segment, mdesc,
                   count, output, crashed, consumed, restored>>

\* GetOrAttachToShmID, lines 117-119 and 127: lock, find, and on a hit copy
\* the cached shared_ptr.
GetOrAttach_Find(t) ==
    /\ crashed = NoThread
    /\ pc[t] = "goa"
    /\ MutexAvailable
    /\ m_Mutex' = t
    /\ LET h == Find(input[t].shm_id) IN
         IF h = NoHandle
             THEN /\ pc' = [pc EXCEPT ![t] = "attach"]
                  /\ UNCHANGED <<systemv, segment>>
             ELSE /\ segment' = [segment EXCEPT ![t] = h]
                  /\ systemv' = AddRef(systemv, h)
                  /\ pc' = [pc EXCEPT ![t] = "ret"]
    /\ UNCHANGED <<m_AttachedSegments, shmem, input, mdesc, count, output, crashed>>
    /\ UNCHANGED history

\* Line 122, segment = SystemV::Attach(shm_id).  For an id that names no
\* segment the attach fails: the error leaves GetOrAttachToShmID (the
\* lock_guard unlocks) and Acquire, and the request ends with it.
GetOrAttach_Attach(t) ==
    /\ crashed = NoThread
    /\ pc[t] = "attach"
    /\ IF input[t].shm_id \in ExistingIds
           THEN /\ systemv' = Append(systemv, NewSystemV(input[t].shm_id))
                /\ segment' = [segment EXCEPT ![t] = Len(systemv) + 1]
                /\ pc' = [pc EXCEPT ![t] = "insert"]
                /\ UNCHANGED <<m_Mutex, output>>
           ELSE /\ m_Mutex' = Unlock(t)
                /\ output' = [output EXCEPT ![t] = AttachError]
                /\ pc' = [pc EXCEPT ![t] = "done"]
                /\ UNCHANGED <<systemv, segment>>
    /\ UNCHANGED <<m_AttachedSegments, shmem, input, mdesc, count, crashed>>
    /\ UNCHANGED history

\* Line 123, m_AttachedSegments[shm_id] = segment: the entry takes a share of
\* the new handle (and gives up the one it held, if any).
GetOrAttach_Insert(t) ==
    /\ crashed = NoThread
    /\ pc[t] = "insert"
    /\ LET id == input[t].shm_id
           old == m_AttachedSegments[id]
           S == AddRef(systemv, segment[t])
       IN  /\ m_AttachedSegments' = Insert(m_AttachedSegments, id, segment[t])
           /\ systemv' = IF old = NoHandle THEN S ELSE DropRef(S, old)
    /\ pc' = [pc EXCEPT ![t] = "ret"]
    /\ UNCHANGED <<m_Mutex, shmem, input, segment, mdesc, count, output, crashed>>
    /\ UNCHANGED history

\* Lines 129-130: the lock_guard unlocks and segment is returned to Acquire,
\* where it lives as the temporary bound to `const auto& segment`.
GetOrAttach_Return(t) ==
    /\ crashed = NoThread
    /\ pc[t] = "ret"
    /\ m_Mutex' = Unlock(t)
    /\ pc' = [pc EXCEPT ![t] = "check_le"]
    /\ UNCHANGED <<m_AttachedSegments, systemv, shmem, input, segment, mdesc,
                   count, output, crashed>>
    /\ UNCHANGED history

\* Acquire, lines 102-104: CHECK_LE, then the view is constructed over the
\* handle and the temporary shared_ptr is destroyed on return.
Acquire_MakeViewAt(t, offsets, sizes) ==
    /\ crashed = NoThread
    /\ pc[t] = "check_le"
    /\ \E offset \in offsets, size \in sizes :
         LET h == segment[t]
             r == [input[t] EXCEPT !.offset = offset, !.size = size]
         IN  IF CheckLE(offset, size, systemv[h].size)
                 THEN /\ input' = [input EXCEPT ![t] = r]
                      /\ mdesc' = [mdesc EXCEPT ![t] =
                            [seg |-> h, offset |-> offset, size |-> size]]
                      /\ systemv' = DropRef(ViewCtor(systemv, h), h)
                      /\ segment' = [segment EXCEPT ![t] = NoHandle]
                      /\ pc' = [pc EXCEPT ![t] = "validate0"]
                      /\ UNCHANGED <<m_AttachedSegments, m_Mutex, shmem, count,
                                     output, crashed>>
                 ELSE Abort(t, r)
    /\ UNCHANGED history

\* Acquire for requests whose ranges do not overlap one another, of any
\* size.
Acquire_MakeView(t) == Acquire_MakeViewAt(t, Offsets, Sizes)

\* Lines 160-162: CHECK(mdesc); CHECK_EQ(array[0], input.batch_id()).
ValidateBatch(t) ==
    /\ crashed = NoThread
    /\ pc[t] = "validate0"
    /\ IF mdesc[t] = NoView
           THEN Abort(t, input[t])
           ELSE \E b \in BatchIds :
                  LET r == [input[t] EXCEPT !.batch_id = b] IN
                    \/ ~Mapped(mdesc[t], 0) /\ Abort(t, r)
                    \/ \E v \in ReadOutcomes(mdesc[t], 0) :
                         IF v = b
                             THEN /\ input' = [input EXCEPT ![t] = r]
                                  /\ pc' = [pc EXCEPT ![t] = "validate1"]
                                  /\ UNCHANGED <<m_AttachedSegments, m_Mutex,
                                                 systemv, shmem, segment, mdesc,
                                                 count, output, crashed>>
                             ELSE Abort(t, r)
    /\ UNCHANGED history

\* Mutant: the sentinel is not checked.
ValidateSentinelSkipped(t) ==
    /\ crashed = NoThread
    /\ pc[t] = "validate1"
    /\ pc' = [pc EXCEPT ![t] = "write"]
    /\ UNCHANGED <<m_AttachedSegments, m_Mutex, systemv, shmem, input, segment,
                   mdesc, count, output, crashed, history>>

\* Line 163: CHECK_EQ(array[1], 0xDEADBEEF).
ValidateSentinel(t) ==
    /\ crashed = NoThread
    /\ pc[t] = "validate1"
    /\ \/ ~Mapped(mdesc[t], 1) /\ Abort(t, input[t])
       \/ \E v \in ReadOutcomes(mdesc[t], 1) :
            IF v = DEADBEEF
                THEN /\ pc' = [pc EXCEPT ![t] = "write"]
                     /\ UNCHANGED <<m_AttachedSegments, m_Mutex, systemv, shmem, input,
                                    segment, mdesc, count, output, crashed>>
                ELSE Abort(t, input[t])
    /\ UNCHANGED history

\* Mutant: the handler answers without storing the marker.
WriteMarkerSkipped(t) ==
    /\ crashed = NoThread
    /\ pc[t] = "write"
    /\ pc' = [pc EXCEPT ![t] = "finish"]
    /\ UNCHANGED <<m_AttachedSegments, m_Mutex, systemv, shmem, input, segment,
                   mdesc, count, output, crashed>>
    /\ UNCHANGED history

\* Line 164: array[1] = input.batch_id().  A store past the end of the
\* mapping faults or lands outside every segment.
WriteMarker(t) ==
    /\ crashed = NoThread
    /\ pc[t] = "write"
    /\ LET v == mdesc[t] IN
         IF Mapped(v, 1)
             THEN /\ shmem' = [shmem EXCEPT
                          ![systemv[v.seg].shm_id][WordIndex(v, 1)] = input[t].batch_id]
                  /\ pc' = [pc EXCEPT ![t] = "finish"]
                  /\ UNCHANGED <<m_AttachedSegments, m_Mutex, systemv, input, segment,
                                 mdesc, count, output, crashed>>
             ELSE \/ Abort(t, input[t])
                  \/ /\ pc' = [pc EXCEPT ![t] = "finish"]
                     /\ UNCHANGED <<m_AttachedSegments, m_Mutex, systemv, shmem, input,
                                    segment, mdesc, count, output, crashed>>
    /\ restored' =
         IF ~Mapped(mdesc[t], 1) THEN restored
         ELSE IF input[t].batch_id # DEADBEEF THEN restored \ {RangeOf(mdesc[t])}
         ELSE IF shmem[systemv[mdesc[t].seg].shm_id][WordIndex(mdesc[t], 1)] # DEADBEEF
                  THEN restored \cup {RangeOf(mdesc[t])}
                  ELSE restored
    /\ UNCHANGED <<consumed, began>>

\* Lines 166-167: output.set_batch_id(input.batch_id()); FinishResponse().
FinishResponse(t) ==
    /\ crashed = NoThread
    /\ pc[t] = "finish"
    /\ output' = [output EXCEPT ![t] = input[t].batch_id]
    /\ pc' = [pc EXCEPT ![t] = "done"]
    /\ consumed' =
         IF mdesc[t] # NoView /\ Mapped(mdesc[t], 1) /\ input[t].batch_id # DEADBEEF
             THEN consumed \cup {RangeOf(mdesc[t])}
             ELSE consumed
    /\ UNCHANGED <<m_AttachedSegments, m_Mutex, systemv, shmem, input, segment, mdesc,
                   count, crashed, restored, began>>

\* Line 168: ExecuteRPC returns; mdesc goes out of scope and the view's
\* share of the handle is dropped.
ExecuteRPC_End(t) ==
    /\ crashed = NoThread
    /\ pc[t] = "done"
    /\ systemv' = IF mdesc[t] = NoView THEN systemv ELSE DropRef(systemv, mdesc[t].seg)
    /\ mdesc' = [mdesc EXCEPT ![t] = NoView]
    /\ input' = [input EXCEPT ![t] = NoInput]
    /\ output' = [output EXCEPT ![t] = NoOutput]
    /\ pc' = [pc EXCEPT ![t] = "idle"]
    /\ UNCHANGED <<m_AttachedSegments, m_Mutex, shmem, segment, count, crashed>>
    /\ began' = [began EXCEPT ![t] = {}]
    /\ UNCHANGED <<consumed, restored>>

\* ---------------------------------------------------------- Release
\* Lines 108-109: lock, then count = m_AttachedSegments.erase(shm_id); an
\* erased entry's share of the handle is dropped.
Release_EraseFrom(t, from) ==
    /\ crashed = NoThread
    /\ pc[t] = from
    /\ MutexAvailable
    /\ m_Mutex' = t
    /\ \E id \in ShmIds :
         LET h == Find(id) IN
           /\ input' = [input EXCEPT ![t] = [NoInput EXCEPT !.shm_id = id]]
           /\ m_AttachedSegments' = Erase(m_AttachedSegments, id)
           /\ systemv' = IF h = NoHandle THEN systemv ELSE ReleaseEntry(systemv, h)
           /\ count' = [count EXCEPT ![t] = IF h = NoHandle THEN 0 ELSE 1]
    /\ pc' = [pc EXCEPT ![t] = "rel_ret"]
    /\ UNCHANGED <<shmem, segment, mdesc, output, crashed>>
    /\ UNCHANGED history

\* Release as one step from its call to its erase (the caller does not show
\* while it waits for the lock).
Release_Erase(t) == Release_EraseFrom(t, "idle")

\* Lines 110-111: the diagnostic for count == 0, and the lock_guard unlocks.
Release_Return(t) ==
    /\ crashed = NoThread
    /\ pc[t] = "rel_ret"
    /\ m_Mutex' = Unlock(t)
    /\ input' = [input EXCEPT ![t] = NoInput]
    /\ count' = [count EXCEPT ![t] = 0]
    /\ pc' = [pc EXCEPT ![t] = "idle"]
    /\ UNCHANGED <<m_AttachedSegments, systemv, shmem, segment, mdesc, output, crashed>>
    /\ UNCHANGED history

Next ==
    \E t \in Threads :
        \/ ExecuteRPC_Begin(t)
        \/ GetOrAttach_Find(t)
        \/ GetOrAttach_Attach(t)
        \/ GetOrAttach_Insert(t)
        \/ GetOrAttach_Return(t)
        \/ Acquire_MakeView(t)
        \/ ValidateBatch(t)
        \/ ValidateSentinel(t)
        \/ WriteMarker(t)
        \/ FinishResponse(t)
        \/ ExecuteRPC_End(t)
        \/ Release_Erase(t)
        \/ Release_Return(t)

Spec == Init /\ [][Next]_vars

\* ------------------------------------------------------- fair scheduling
\* Line 106: Release(shm_id) is called; the caller stands at the lock_guard
\* of line 108.
Release_Call(t) ==
    /\ crashed = NoThread
    /\ pc[t] = "idle"
    /\ pc' = [pc EXCEPT ![t] = "rel"]
    /\ UNCHANGED <<m_AttachedSegments, m_Mutex, systemv, shmem, input, segment,
                   mdesc, count, output, crashed>>
    /\ UNCHANGED history

\* Line 108: the waiting Release gets the lock and erases.
Release_Lock(t) == Release_EraseFrom(t, "rel")

\* The program with a Release that shows while it waits for the lock.
LiveNext ==
    \E t \in Threads :
        \/ ExecuteRPC_Begin(t)
        \/ GetOrAttach_Find(t)
        \/ GetOrAttach_Attach(t)
        \/ GetOrAttach_Insert(t)
        \/ GetOrAttach_Return(t)
        \/ Acquire_MakeView(t)
        \/ ValidateBatch(t)
        \/ ValidateSentinel(t)
        \/ WriteMarker(t)
        \/ FinishResponse(t)
        \/ ExecuteRPC_End(t)
        \/ Release_Call(t)
        \/ Release_Lock(t)
        \/ Release_Return(t)

\* A thread inside GetOrAttachToShmID or Release keeps running, and a thread
\* waiting for the lock gets it if it is free again and again.  Nothing
\* makes a handler go on or a view be destroyed.
Fairness ==
    \A t \in Threads :
        /\ SF_vars(GetOrAttach_Find(t))
        /\ WF_vars(GetOrAttach_Attach(t))
        /\ WF_vars(GetOrAttach_Insert(t))
        /\ WF_vars(GetOrAttach_Return(t))
        /\ SF_vars(Release_Lock(t))
        /\ WF_vars(Release_Return(t))

LiveSpec == Init /\ [][LiveNext]_vars /\ Fairness

\* ------------------------------------------------------ overlapping ranges
\* Offsets one word apart: the marker word of one range is the first word of
\* the next.
WordOffsets == {0, WordSize, 2 * WordSize}

\* Acquire for requests of two words each, whose ranges may overlap.
Acquire_MakeViewOverlapping(t) == Acquire_MakeViewAt(t, WordOffsets, {2 * WordSize})

\* The handler alone (no Release) on two-word ranges that may overlap; every
\* view that Acquire returns here lies inside its segment.
SentinelNext ==
    \E t \in Threads :
        \/ ExecuteRPC_Begin(t)
        \/ GetOrAttach_Find(t)
        \/ GetOrAttach_Attach(t)
        \/ GetOrAttach_Insert(t)
        \/ GetOrAttach_Return(t)
        \/ Acquire_MakeViewOverlapping(t)
        \/ ValidateBatch(t)
        \/ ValidateSentinel(t)
        \/ WriteMarker(t)
        \/ FinishResponse(t)
        \/ ExecuteRPC_End(t)

SentinelSpec == Init /\ [][SentinelNext]_vars
\* ================================================================ claims
Attached(h) == systemv[h].attached
Released(h) == systemv[h].released
IdOf(h) == systemv[h].shm_id

\* The shared_ptrs that own h: the cache entry, the views, and the locals
\* named segment of calls in progress.
Owners(h) ==
    Cardinality({id \in ShmIds : m_AttachedSegments[id] = h})
    + Cardinality({t \in Threads : mdesc[t].seg = h})
    + Cardinality({t \in Threads : segment[t] = h})

\* Handles attached for id whose cache entry no Release has erased.
Unreleased(id) == {h \in Handles : IdOf(h) = id /\ ~Released(h)}

\* Threads between the miss and the insert of GetOrAttachToShmID(id).
Attaching(id) == {t \in Threads : pc[t] \in {"attach", "insert"} /\ input[t].shm_id = id}

\* The handle thread t got from GetOrAttachToShmID (in Acquire, or in its view).
Holding(t) == IF segment[t] # NoHandle THEN segment[t] ELSE mdesc[t].seg

\* C1: a handle referenced by a live view, or by an Acquire that has it from
\* GetOrAttachToShmID and has not yet built its view, is attached, whatever
\* Release calls have run.
NoUseAfterUnmap ==
    \A t \in Threads :
        /\ mdesc[t] # NoView => Attached(mdesc[t].seg)
        /\ segment[t] # NoHandle => Attached(segment[t])

\* C1 witness: Release erased the entry between Acquire's lookup and its view
\* construction.
ReleasedBeforeViewBuilt ==
    \E t \in Threads :
        pc[t] = "check_le" /\ Released(segment[t]) /\ Attached(segment[t])

\* C2: while no Release erases the entry, an id is attached at most once:
\* at most one thread is between miss and insert, only while the id is
\* absent, at most one unreleased handle exists per id, and all calls for the
\* id hold that one handle.
SingleAttachPerId ==
    \A id \in ShmIds :
        /\ Cardinality(Unreleased(id)) <= 1
        /\ Cardinality(Attaching(id)) <= 1
        /\ Attaching(id) # {} => m_AttachedSegments[id] = NoHandle
        /\ \A t1, t2 \in Threads :
             LET h1 == Holding(t1)
                 h2 == Holding(t2)
             IN  (/\ h1 # NoHandle /\ h2 # NoHandle
                  /\ IdOf(h1) = id /\ IdOf(h2) = id
                  /\ ~Released(h1) /\ ~Released(h2))
                 => h1 = h2 /\ systemv[h1].size = systemv[h2].size

\* C2 witness: two concurrent first-time calls for one id have both
\* returned, with the one handle ever attached.
TwoCallsOneAttach ==
    \E t1, t2 \in Threads :
        /\ t1 # t2
        /\ pc[t1] = "check_le" /\ pc[t2] = "check_le"
        /\ segment[t1] = segment[t2]
        /\ Len(systemv) = 1

\* C3: a handle is detached at most once; it is attached exactly while some
\* shared_ptr owns it; the step that detaches it is the step that drops its
\* cache entry or a view on it; once released, with no view and no call in
\* progress holding it, it is detached.
DetachInv ==
    \A h \in Handles :
        /\ systemv[h].detaches <= 1
        /\ Attached(h) <=> systemv[h].detaches = 0
        /\ Attached(h) <=> Owners(h) > 0
        /\ systemv[h].use_count = Owners(h)
        /\ (/\ Released(h)
            /\ \A t \in Threads : mdesc[t].seg # h /\ segment[t] # h)
           => ~Attached(h)

DetachStep ==
    \A h \in Handles :
        (Attached(h) /\ ~systemv'[h].attached)
        => \/ /\ m_AttachedSegments[IdOf(h)] = h
              /\ m_AttachedSegments'[IdOf(h)] # h
           \/ \E t \in Threads : mdesc[t].seg = h /\ mdesc'[t] = NoView

\* C3: every state satisfies DetachInv and every step satisfies DetachStep:
\* the detach runs once, at the step that drops the last owner.
DetachExactlyOnceAtLastRelease == []DetachInv /\ [][DetachStep]_vars

\* C3 witness: a released handle kept attached by one last view, and
\* another already detached.
LastOwnerIsAView ==
    \E h \in Handles, t \in Threads :
        /\ Released(h) /\ Attached(h)
        /\ mdesc[t].seg = h
        /\ systemv[h].use_count = 1
        /\ \E g \in Handles : ~Attached(g) /\ systemv[g].detaches = 1

\* C4: a handle obtained for an id stays the cached one until a Release;
\* a lookup that finds the id returns the cached handle, attaches nothing and
\* leaves the cache alone; an attach is issued only for an absent id.
ReuseInv ==
    \A t \in Threads :
        LET h == Holding(t) IN
          (pc[t] \in {"ret", "check_le", "validate0", "validate1", "write",
                      "finish", "done"}
           /\ h # NoHandle /\ ~Released(h))
          => m_AttachedSegments[IdOf(h)] = h

ReuseStep ==
    \A t \in Threads :
        LET id == input[t].shm_id IN
          /\ (pc[t] = "goa" /\ pc'[t] = "ret")
             => /\ m_AttachedSegments' = m_AttachedSegments
                /\ Len(systemv') = Len(systemv)
                /\ segment'[t] = m_AttachedSegments[id]
          /\ (pc[t] = "goa" /\ pc'[t] # "goa" /\ m_AttachedSegments[id] # NoHandle)
             => pc'[t] = "ret"
          /\ (pc[t] = "attach" /\ pc'[t] = "insert")
             => m_AttachedSegments[id] = NoHandle /\ Unreleased(id) = {}

\* C4: every state satisfies ReuseInv and every step ReuseStep: calls with
\* no Release between them get the same handle and only the first attaches.
Reuse == []ReuseInv /\ [][ReuseStep]_vars

\* C4 witness: a call has found the id in the cache while another request
\* still uses the same handle through its view.
HitWhileInUse ==
    \E t1, t2 \in Threads :
        /\ t1 # t2
        /\ pc[t1] = "ret"
        /\ mdesc[t2].seg = segment[t1]
        /\ Len(systemv) = 1

\* C5: after a Release the id is attached afresh: a cached handle is never a
\* released one, each Release allows one more attach, the insert caches the
\* newly attached handle, and a view on the released handle keeps it
\* attached and keeps referring to it.
ReattachInv ==
    /\ \A id \in ShmIds :
         LET h == m_AttachedSegments[id] IN
           /\ h # NoHandle => ~Released(h) /\ Attached(h) /\ IdOf(h) = id
           /\ Cardinality({g \in Handles : IdOf(g) = id})
                <= Cardinality({g \in Handles : IdOf(g) = id /\ Released(g)}) + 1
    /\ \A t \in Threads :
         (mdesc[t] # NoView /\ Released(mdesc[t].seg))
         => /\ Attached(mdesc[t].seg)
            /\ m_AttachedSegments[IdOf(mdesc[t].seg)] # mdesc[t].seg

ReattachStep ==
    \A t \in Threads :
        /\ (mdesc[t] # NoView /\ mdesc'[t] # NoView) => mdesc'[t] = mdesc[t]
        /\ (pc[t] = "insert" /\ pc'[t] = "ret")
           => /\ m_AttachedSegments'[input[t].shm_id] = segment[t]
              /\ Len(systemv') = Len(systemv)
              /\ \A g \in Handles :
                   (IdOf(g) = input[t].shm_id /\ Released(g))
                   => g < segment[t] /\ systemv'[g] = systemv[g]

\* C5: every state satisfies ReattachInv and every step ReattachStep: a
\* Release is followed by one fresh attach, beside the old view's handle.
ReleaseThenReattach == []ReattachInv /\ [][ReattachStep]_vars

\* C5 witness: the id is cached with a second handle while a view still
\* holds the first, released one; both are attached.
OldViewBesideNewHandle ==
    \E t \in Threads, h1, h2 \in Handles :
        /\ h1 # h2 /\ IdOf(h1) = IdOf(h2)
        /\ Released(h1) /\ Attached(h1) /\ mdesc[t].seg = h1
        /\ m_AttachedSegments[IdOf(h2)] = h2 /\ Attached(h2)

\* C6 (as claimed): Acquire succeeds exactly when the true sum offset + size
\* is at most the segment's size.
BoundsEnforced ==
    \A t \in Threads :
        /\ mdesc[t] # NoView
           => mdesc[t].offset + mdesc[t].size <= systemv[mdesc[t].seg].size
        /\ (crashed = t /\ pc[t] = "check_le")
           => input[t].offset + input[t].size > systemv[segment[t]].size

\* C7 (as claimed): no range violation and no identity or sentinel mismatch
\* aborts the process.
FailuresAreRequestScoped ==
    \A t \in Threads :
        crashed = t
        => ~ \/ pc[t] = "check_le"
             \/ pc[t] = "validate0" /\ mdesc[t] # NoView /\ Mapped(mdesc[t], 0)
             \/ pc[t] = "validate1" /\ Mapped(mdesc[t], 1)

\* C8: the erase of Release never fails, removes only the entry of its id,
\* touches only that entry's handle, and changes nothing when the id has no
\* entry; afterwards the id has no entry, so a second Release is that no-op.
ReleaseStep ==
    \A t \in Threads :
        /\ (pc[t] = "idle" /\ pc'[t] = "rel_ret")
           => LET id == input'[t].shm_id
                  h == m_AttachedSegments[id]
              IN  /\ crashed' = NoThread
                  /\ m_AttachedSegments'[id] = NoHandle
                  /\ \A j \in ShmIds \ {id} :
                       m_AttachedSegments'[j] = m_AttachedSegments[j]
                  /\ \A g \in Handles \ {h} : systemv'[g] = systemv[g]
                  /\ Len(systemv') = Len(systemv)
                  /\ h = NoHandle
                     => /\ m_AttachedSegments' = m_AttachedSegments
                        /\ systemv' = systemv
                  /\ shmem' = shmem /\ mdesc' = mdesc
        /\ (pc[t] = "rel_ret" /\ pc'[t] = "idle")
           => /\ m_AttachedSegments' = m_AttachedSegments
              /\ systemv' = systemv

\* C8: every step of Release satisfies ReleaseStep: it is local to its id
\* and a no-op on an id without entry.
IdempotentLocalRelease == [][ReleaseStep]_vars

\* C8 witness: a Release of an id released before has erased nothing, and
\* another id is still cached.
SecondReleaseErasedNothing ==
    \E t \in Threads :
        /\ pc[t] = "rel_ret" /\ count[t] = 0
        /\ \E g \in Handles : IdOf(g) = input[t].shm_id /\ Released(g)
        /\ \E j \in ShmIds \ {input[t].shm_id} : m_AttachedSegments[j] # NoHandle

\* C9: the critical sections of Release and GetOrAttachToShmID exclude each
\* other; GetOrAttachToShmID leaves its section with the id mapped to the
\* attached handle it returns, Release leaves its section with the id
\* unmapped; a returned handle is attached and is either still the cached
\* one or the one a later Release erased.
InCritical == {t \in Threads : pc[t] \in {"attach", "insert", "ret", "rel_ret"}}

RaceIsAtomic ==
    /\ Cardinality(InCritical) <= 1
    /\ \A t \in InCritical : m_Mutex = t
    /\ \A t \in Threads :
         /\ pc[t] = "ret"
            => /\ m_AttachedSegments[input[t].shm_id] = segment[t]
               /\ Attached(segment[t]) /\ ~Released(segment[t])
         /\ pc[t] = "rel_ret" => m_AttachedSegments[input[t].shm_id] = NoHandle
         /\ pc[t] = "check_le"
            => /\ Attached(segment[t])
               /\ \/ m_AttachedSegments[input[t].shm_id] = segment[t]
                  \/ Released(segment[t])

\* C9 witness: a GetOrAttachToShmID waits for the lock while a Release of
\* the same id, which has erased the entry, holds it.
ReleaseRacesGetOrAttach ==
    \E t1, t2 \in Threads :
        /\ pc[t1] = "goa" /\ pc[t2] = "rel_ret" /\ count[t2] = 1
        /\ input[t1].shm_id = input[t2].shm_id

\* Words of the view the handler has read or written so far.
Touched(t) ==
    CASE pc[t] = "validate1" -> 1
      [] pc[t] \in {"write", "finish", "done"} -> 2
      [] OTHER -> 0

\* C10 (as claimed): the handler touches no byte outside its view.
AccessWithinView ==
    \A t \in Threads :
        mdesc[t] # NoView => Touched(t) * WordSize <= mdesc[t].size

\* ------------------------------------------------------------ the handler
\* The word array[k] of t's view, for a view whose array[k] is mapped.
Word(t, k) == shmem[systemv[mdesc[t].seg].shm_id][WordIndex(mdesc[t], k)]

\* The step is t's CHECK_EQ(array[0], input.batch_id()) on a mapped word.
ChecksBatch(t) ==
    /\ pc[t] = "validate0" /\ mdesc[t] # NoView /\ Mapped(mdesc[t], 0)
    /\ input'[t] # input[t]

\* The step is t's CHECK_EQ(array[1], 0xDEADBEEF) on a mapped word.
ChecksSentinel(t) ==
    /\ pc[t] = "validate1" /\ Mapped(mdesc[t], 1)
    /\ (pc'[t] # pc[t] \/ crashed' = t)

\* The step is t's array[1] = input.batch_id() on a mapped word.
Writes(t) == pc[t] = "write" /\ Mapped(mdesc[t], 1) /\ pc'[t] = "finish"

\* A failed CHECK ends the process: no step follows it, and the request it
\* was handling has no response.
FailedInv == crashed # NoThread => output[crashed] = NoOutput

FailedStep ==
    /\ crashed = NoThread
    /\ \A t \in Threads :
         (\/ ChecksBatch(t) /\ Word(t, 0) # input'[t].batch_id
          \/ ChecksSentinel(t) /\ Word(t, 1) # DEADBEEF)
         => /\ crashed' = t
            /\ shmem' = shmem
            /\ output' = output /\ output[t] = NoOutput
            /\ pc'[t] = pc[t]

\* C11: a request whose first control word differs from its batch_id, or
\* whose second control word differs from 0xDEADBEEF, fails at that check:
\* the step changes no byte of any segment, the request gets no response,
\* and nothing runs afterwards that could write the marker or respond.
FailedValidationIsClean == []FailedInv /\ [][FailedStep]_vars

\* C11 witness: a request failed the sentinel check on a marker word that an
\* earlier request had overwritten with its batch_id.
FailedOnConsumedMarker ==
    \E t \in Threads :
        /\ crashed = t /\ pc[t] = "validate1" /\ Mapped(mdesc[t], 1)
        /\ IdOf(mdesc[t].seg) = 1 /\ mdesc[t].offset = 0
        /\ shmem[1] = <<42, 42, DEADBEEF, DEADBEEF>>

\* shmem with array[1] of t's view set to t's batch_id.
MarkerSet(t) ==
    [shmem EXCEPT ![systemv[mdesc[t].seg].shm_id][WordIndex(mdesc[t], 1)] =
                      input[t].batch_id]

\* Every change of a segment's bytes is one handler's marker write.
OnlyMarkerWritten ==
    shmem' # shmem => \E t \in Threads : Writes(t) /\ shmem' = MarkerSet(t)

SuccessStep ==
    /\ OnlyMarkerWritten
    /\ \A t \in Threads :
         /\ (ChecksBatch(t) /\ Word(t, 0) = input'[t].batch_id)
            => pc'[t] = "validate1" /\ crashed' = NoThread
         /\ (ChecksSentinel(t) /\ Word(t, 1) = DEADBEEF)
            => pc'[t] = "write" /\ crashed' = NoThread
         /\ (pc[t] = "write" /\ Mapped(mdesc[t], 1) /\ pc'[t] # pc[t])
            => /\ Writes(t) /\ shmem' = MarkerSet(t)
               /\ input' = input /\ crashed' = NoThread
         /\ (pc[t] = "finish" /\ pc'[t] # pc[t])
            => /\ pc'[t] = "done" /\ output'[t] = input[t].batch_id
               /\ shmem' = shmem /\ crashed' = NoThread

\* A request that has its response passed both checks and wrote its marker.
SuccessInv ==
    \A t \in Threads :
        (pc[t] = "done" /\ mdesc[t] # NoView) => output[t] = input[t].batch_id

\* C12: a request with a locator whose first word equals its batch_id b and
\* whose second word equals 0xDEADBEEF passes both checks, its write sets
\* the second word of the view to b and changes no other byte of any
\* segment, and its response carries b.
SuccessfulRequestEffect == []SuccessInv /\ [][SuccessStep]_vars

\* C12 witness: a request with batch_id 42 at offset 0 of segment 1 has its
\* response 42, and the segment differs from its initial contents in the
\* marker word only.
MarkerOverwritten ==
    \E t \in Threads :
        /\ pc[t] = "done" /\ output[t] = 42 /\ crashed = NoThread
        /\ mdesc[t] # NoView /\ mdesc[t].offset = 0 /\ IdOf(mdesc[t].seg) = 1
        /\ shmem[1] = <<42, 42, DEADBEEF, DEADBEEF>>

\* -------------------------------------------------------- disjoint ranges
\* Byte range [offset, offset + size) of t's view.
Range(t) == mdesc[t].offset .. (mdesc[t].offset + mdesc[t].size - 1)

\* t's view is a valid place for a request: it holds both control words and
\* lies inside its segment.
ValidView(t) ==
    /\ mdesc[t] # NoView
    /\ mdesc[t].size >= 2 * WordSize
    /\ mdesc[t].offset + mdesc[t].size <= systemv[mdesc[t].seg].size

\* t1 and t2 have valid views on non-overlapping ranges of one segment id.
Disjoint(t1, t2) ==
    /\ t1 # t2 /\ ValidView(t1) /\ ValidView(t2)
    /\ IdOf(mdesc[t1].seg) = IdOf(mdesc[t2].seg)
    /\ Range(t1) \cap Range(t2) = {}

\* Words of segment id's memory that lie in t's range.
WordsOf(t) ==
    {i \in 1 .. Len(shmem[IdOf(mdesc[t].seg)]) :
        (i - 1) * WordSize \in Range(t)}

\* Requests on disjoint ranges of one id use one attachment (while no
\* Release has dropped it from the cache between their two lookups).
DisjointInv ==
    \A t1, t2 \in Threads :
        (/\ Disjoint(t1, t2)
         /\ ~Released(mdesc[t1].seg) /\ ~Released(mdesc[t2].seg))
        => mdesc[t1].seg = mdesc[t2].seg

\* No step of t2 changes a word in t1's range or stops t1; t2's own write
\* changes its own marker word only.
DisjointStep ==
    \A t1, t2 \in Threads :
        (Disjoint(t1, t2) /\ (pc'[t2] # pc[t2] \/ crashed' = t2))
        => /\ \A i \in WordsOf(t1) :
                shmem'[IdOf(mdesc[t1].seg)][i] = shmem[IdOf(mdesc[t1].seg)][i]
           /\ (pc[t2] = "write"
               => shmem' = MarkerSet(t2) /\ WordIndex(mdesc[t2], 1) \in WordsOf(t2))
           /\ pc'[t1] = pc[t1] /\ output'[t1] = output[t1]
           /\ (crashed' = t2
               => \/ pc[t2] = "validate0" /\ Word(t2, 0) # input'[t2].batch_id
                  \/ pc[t2] = "validate1" /\ Word(t2, 1) # DEADBEEF)

\* C13: two concurrent requests with valid views on non-overlapping ranges of
\* one segment id share one attachment, neither changes a word of the
\* other's range nor its progress, each writes only the marker word of its
\* own range, and either fails only on the contents of its own two words;
\* so two requests that are each valid both succeed, however interleaved.
ConcurrentDisjointAccess == []DisjointInv /\ [][DisjointStep]_vars

\* C13 witness: requests at offsets 0 and 16 of segment 1 ran concurrently
\* on one handle and both have their responses.
BothDisjointSucceeded ==
    \E t1, t2 \in Threads :
        /\ Disjoint(t1, t2) /\ mdesc[t1].seg = mdesc[t2].seg
        /\ pc[t1] = "done" /\ pc[t2] = "done"
        /\ output[t1] = 42 /\ output[t2] = DEADBEEF
        /\ shmem[1] = <<42, 42, DEADBEEF, DEADBEEF>>

\* ---------------------------------------------------------- attach failure
\* The step is the failure of t's SystemV::Attach.
AttachFails(t) ==
    pc[t] = "attach" /\ input[t].shm_id \notin ExistingIds /\ pc'[t] # pc[t]

\* No entry and no handle exists for an id that cannot be attached, and the
\* lock is held only by a thread inside GetOrAttachToShmID or Release.
AttachFailInv ==
    /\ \A id \in ShmIds \ ExistingIds :
         /\ m_AttachedSegments[id] = NoHandle
         /\ \A h \in Handles : IdOf(h) # id
    /\ \A t \in Threads :
         m_Mutex = t => pc[t] \in {"attach", "insert", "ret", "rel_ret"}
    /\ \A t \in Threads :
         (pc[t] = "done" /\ output[t] = AttachError) => mdesc[t] = NoView

AttachFailStep ==
    \A t \in Threads :
        AttachFails(t)
        => /\ m_AttachedSegments' = m_AttachedSegments
           /\ systemv' = systemv /\ shmem' = shmem
           /\ m_Mutex = t /\ m_Mutex' = NoThread
           /\ pc'[t] = "done" /\ output'[t] = AttachError
           /\ crashed' = NoThread

NoLocator(t) == pc[t] # "idle" /\ pc[t] # "rel_ret" /\ ~input[t].has_sysv

\* A request without a locator gets no view and never passes CHECK(mdesc).
NoLocatorInv ==
    \A t \in Threads :
        NoLocator(t)
        => /\ pc[t] = "validate0"
           /\ mdesc[t] = NoView /\ segment[t] = NoHandle
           /\ output[t] = NoOutput

NoLocatorStep ==
    \A t \in Threads :
        /\ (pc[t] = "idle" /\ NoLocator(t)')
           => /\ m_AttachedSegments' = m_AttachedSegments
              /\ systemv' = systemv /\ shmem' = shmem /\ m_Mutex' = m_Mutex
        /\ (NoLocator(t) /\ (pc'[t] # pc[t] \/ input'[t] # input[t] \/ crashed' = t))
           => /\ crashed' = t
              /\ m_AttachedSegments' = m_AttachedSegments
              /\ systemv' = systemv /\ shmem' = shmem /\ m_Mutex' = m_Mutex
              /\ output' = output

\* C15: a request without a locator skips Acquire and fails at CHECK(mdesc):
\* from its start to its failure it attaches nothing, takes no lock, changes
\* neither the cache nor a segment byte, and gets no response.
NoLocatorFails == []NoLocatorInv /\ [][NoLocatorStep]_vars

\* C15 witness: a request without a locator has failed at CHECK(mdesc) with
\* a segment in the cache.
NoLocatorFailedBesideCache ==
    \E t \in Threads :
        /\ crashed = t /\ NoLocator(t)
        /\ \E id \in ShmIds : m_AttachedSegments[id] # NoHandle

\* ------------------------------------------------------------- the cache
\* The step is the insert of a GetOrAttachToShmID for id.
Inserts(id) ==
    \E t \in Threads :
        /\ pc[t] = "insert" /\ pc'[t] = "ret" /\ input[t].shm_id = id
        /\ m_AttachedSegments'[id] = segment[t]

\* The step is the erase of a Release(id).
Erases(id) ==
    \E t \in Threads :
        /\ pc[t] = "idle" /\ pc'[t] = "rel_ret" /\ input'[t].shm_id = id
        /\ m_AttachedSegments'[id] = NoHandle

\* An entry changes only by an insert for its id while the id is absent, or
\* by a Release of its id; a handle is marked released only by that Release;
\* a cached handle is detached by no step but the Release of its id.
CacheStep ==
    \A id \in ShmIds :
        LET h == m_AttachedSegments[id] IN
        /\ m_AttachedSegments'[id] # h
           => \/ h = NoHandle /\ Inserts(id)
              \/ h # NoHandle /\ Erases(id)
        /\ (h # NoHandle /\ ~Erases(id))
           => /\ systemv'[h].attached /\ ~systemv'[h].released
              /\ systemv'[h].use_count >= 1

\* C17: the cache changes only by the insert of a GetOrAttachToShmID on an
\* absent id and by Release of an id; no other step (making, using or
\* destroying a view among them) changes an entry, and a cached handle stays
\* attached, whatever its number of views, until Release erases its id.
CacheChangesOnlyByGetOrAttachAndRelease == [][CacheStep]_vars

\* C17 witness: the only request on segment 1 is over and its view is
\* destroyed; the entry is still cached and attached, owned by the cache
\* alone.
CachedWithoutViews ==
    /\ \A t \in Threads : pc[t] = "idle"
    /\ shmem[1] = <<42, 42, DEADBEEF, DEADBEEF>>
    /\ m_AttachedSegments[1] # NoHandle
    /\ systemv[m_AttachedSegments[1]].use_count = 1
    /\ Attached(m_AttachedSegments[1])

\* C18: every cache entry maps its id to a handle that exists, was attached
\* for that id, is attached now and has not been released; no handle is
\* cached under two ids.  (One entry per id is what std::map gives.)
CacheWellFormed ==
    /\ DOMAIN m_AttachedSegments = ShmIds
    /\ \A id \in ShmIds :
         LET h == m_AttachedSegments[id] IN
         h # NoHandle
         => /\ h \in Handles
            /\ IdOf(h) = id
            /\ Attached(h) /\ ~Released(h)
            /\ systemv[h].use_count >= 1
            /\ \A id2 \in ShmIds \ {id} : m_AttachedSegments[id2] # h

\* C18 witness: two ids are cached at once, each with its own handle, after
\* an earlier handle of one of them was released.
TwoIdsCached ==
    /\ m_AttachedSegments[1] # NoHandle /\ m_AttachedSegments[2] # NoHandle
    /\ \E h \in Handles : Released(h)

\* The step is the failure of t's CHECK_LE in Acquire.
RangeCheckFails(t) == pc[t] = "check_le" /\ crashed' = t

\* When CHECK_LE has failed, the handle is attached and is in the cache
\* (unless a Release has erased it since).
RejectedInv ==
    \A t \in Threads :
        (crashed = t /\ pc[t] = "check_le")
        => /\ segment[t] \in Handles
           /\ Attached(segment[t])
           /\ \/ m_AttachedSegments[input[t].shm_id] = segment[t]
              \/ Released(segment[t])

\* The attach and the insert come before the check, and its failure undoes
\* neither.
RejectedStep ==
    \A t \in Threads :
        /\ RangeCheckFails(t)
           => /\ m_AttachedSegments' = m_AttachedSegments
              /\ systemv' = systemv
              /\ ~CheckLE(input'[t].offset, input'[t].size,
                          systemv[segment[t]].size)
        /\ (pc[t] = "insert" /\ pc'[t] # pc[t])
           => /\ pc'[t] = "ret"
              /\ m_AttachedSegments[input[t].shm_id] = NoHandle
              /\ m_AttachedSegments'[input[t].shm_id] = segment[t]
        /\ (pc[t] = "ret" /\ pc'[t] # pc[t])
           => pc'[t] = "check_le" /\ m_AttachedSegments' = m_AttachedSegments

\* C19: Acquire attaches and caches an absent id before it checks the
\* range, and a failed check leaves both in place: at the failure the
\* handle is attached and the id is in the cache.
AttachPrecedesBoundsCheck == []RejectedInv /\ [][RejectedStep]_vars

\* C19 witness: CHECK_LE failed in the call that made the only attach so
\* far; the id is in the cache, owned by the cache and the call's temporary.
RejectedButCached ==
    \E t \in Threads :
        /\ crashed = t /\ pc[t] = "check_le"
        /\ Len(systemv) = 1
        /\ m_AttachedSegments[input[t].shm_id] = segment[t]
        /\ systemv[segment[t]].use_count = 2
        /\ \A t2 \in Threads \ {t} : pc[t2] = "idle"

\* ------------------------------------------------------------ termination
\* t is inside a GetOrAttachToShmID or a Release call.
InCall(t) == pc[t] \in {"goa", "attach", "insert", "ret", "rel", "rel_ret"}

\* C16 (as claimed): under fair scheduling every GetOrAttachToShmID call and
\* every Release call returns, whatever views exist and however long they
\* live.
CallsReturn == \A t \in Threads : InCall(t) ~> ~InCall(t)

\* What the code gives: a call returns unless a CHECK of some request has
\* aborted the process meanwhile; views, destroyed or not, hold no call up.
CallsReturnUnlessAborted ==
    \A t \in Threads : InCall(t) ~> (~InCall(t) \/ crashed # NoThread)

\* ---------------------------------------------------------- the sentinel
\* t's request has passed both checks on a mapped range.
Passed(t) ==
    /\ pc[t] \in {"write", "finish", "done"}
    /\ mdesc[t] # NoView /\ Mapped(mdesc[t], 1)

\* C20 (as claimed): once a request with batch_id other than 0xDEADBEEF has
\* succeeded on a range, no request on that range that started after it
\* completed passes validation (nothing outside the program writes here).
SentinelConsumed ==
    \A t \in Threads : Passed(t) => RangeOf(mdesc[t]) \notin began[t]

\* The step is t's sentinel check on a mapped word, and t passes it.
PassesSentinel(t) ==
    /\ pc[t] = "validate1" /\ Mapped(mdesc[t], 1)
    /\ pc'[t] \in {"write", "finish"}

SentinelStep ==
    /\ \A t \in Threads :
         (PassesSentinel(t) /\ RangeOf(mdesc[t]) \in began[t])
         => RangeOf(mdesc[t]) \in restored /\ Word(t, 1) = DEADBEEF
    /\ \A id \in ExistingIds : \A i \in 1 .. Len(shmem[id]) :
         (shmem[id][i] # DEADBEEF /\ shmem'[id][i] = DEADBEEF)
         => \E t \in Threads :
              /\ Writes(t) /\ input[t].batch_id = DEADBEEF
              /\ IdOf(mdesc[t].seg) = id /\ WordIndex(mdesc[t], 1) = i
              /\ RangeOf(mdesc[t]) \in restored'

\* C20: once a request with batch_id other than 0xDEADBEEF has succeeded on
\* a range, a request on that range that started after it completed passes
\* validation only if the marker has been set back to 0xDEADBEEF since its
\* last overwrite; and an overwritten marker is set back only by the marker
\* write of a request on that range whose batch_id is 0xDEADBEEF (one that
\* had passed its sentinel check before the overwrite).
SentinelConsumedUnlessRestored == [][SentinelStep]_vars

\* C20 witness: a request that started after a success on its range has
\* passed validation, on a marker that a straggling request with batch_id
\* 0xDEADBEEF had set back.
PassedOnRestoredSentinel ==
    \E t \in Threads :
        /\ Passed(t) /\ pc[t] = "write"
        /\ RangeOf(mdesc[t]) \in began[t] /\ RangeOf(mdesc[t]) \in restored
        /\ input[t].batch_id # DEADBEEF
====
